---- MODULE Spec2Model ----
(***************************************************************************)
(* Model of backend/server.js of the expense tracker: the CSV record codec *)
(* (parseCsvLine, toCsvLine), the store (ensureCsv, loadAll, appendOne),   *)
(* the process-wide transactions array and the two API routes              *)
(* GET /api/transactions and POST /api/transactions.                       *)
(*                                                                         *)
(* A JavaScript string is a sequence of one-character strings, so that     *)
(* split, replace, trim, join and the number conversions are computed      *)
(* character by character.  The file is the sequence of its characters.    *)
(***************************************************************************)
EXTENDS Integers, Sequences, FiniteSets

VARIABLES
    phase,         \* "boot": process not running; "loaded": line 120 has run;
                   \* "listening": the app.listen callback (207-211) has run
    fsys,          \* the file system at CSV_PATH: [dir, exists, content]
    transactions,  \* the module-level array of line 120
    hasCrypto,     \* whether global.crypto.randomUUID exists in this runtime
    now,           \* the clock read by Date.now()
    uuids,         \* how many UUIDs randomUUID has returned so far
    nreq,          \* requests handled so far (bounded by MaxReq)
    req,           \* the last step: its name and, for a Create, the body
    res,           \* the response, when the last step was a request
    before,        \* transactions and fsys as they were before the last step
    fresh,         \* the directory did not exist when this process started
    loaded,        \* what loadAll returned when this process started
    listed,        \* the latest List result of this process
    created,       \* this process's successful Creates: [pos, rec]
    unsaved,       \* this process's Creates whose append failed: [pos, rec]
    appended,      \* successful Creates since the file was made
    dropped,       \* records the last restart lost: pushed, never appended
    codec          \* the codec round trip of SpecCodec: [pc, rec, line, out]

vars == <<phase, fsys, transactions, hasCrypto, now, uuids, nreq, req, res,
          before, fresh, loaded, listed, created, unsaved, appended, dropped,
          codec>>

-----------------------------------------------------------------------------
(* Bounds of the model. *)

MaxReq == 3

-----------------------------------------------------------------------------
(* JavaScript strings as character sequences. *)

Digits == <<"0", "1", "2", "3", "4", "5", "6", "7", "8", "9">>

\* The characters String.prototype.trim removes, among those of the model.
IsWhitespace(c) == c \in {" ", "\n"}

RECURSIVE trimStart(_)
trimStart(s) ==
    IF s # <<>> /\ IsWhitespace(Head(s)) THEN trimStart(Tail(s)) ELSE s

RECURSIVE trimEnd(_)
trimEnd(s) ==
    IF s # <<>> /\ IsWhitespace(s[Len(s)])
    THEN trimEnd(SubSeq(s, 1, Len(s) - 1))
    ELSE s

\* String.prototype.trim
trim(s) == trimEnd(trimStart(s))

\* s.replace(/,/g, ' ')
replaceCommas(s) == [i \in 1..Len(s) |-> IF s[i] = "," THEN " " ELSE s[i]]

\* String.prototype.split with a one-character separator: always at least
\* one part, "a,".split(',') is ["a", ""].
RECURSIVE splitFrom(_, _, _)
splitFrom(s, sep, cur) ==
    IF s = <<>> THEN <<cur>>
    ELSE IF Head(s) = sep THEN <<cur>> \o splitFrom(Tail(s), sep, <<>>)
    ELSE splitFrom(Tail(s), sep, Append(cur, Head(s)))

split(s, sep) == splitFrom(s, sep, <<>>)

\* Array.prototype.join with a one-character separator.
RECURSIVE join(_, _)
join(parts, sep) ==
    IF parts = <<>> THEN <<>>
    ELSE IF Len(parts) = 1 THEN parts[1]
    ELSE parts[1] \o <<sep>> \o join(Tail(parts), sep)

IsDigit(c) == \E d \in 1..10 : Digits[d] = c

DigitValue(c) == (CHOOSE d \in 1..10 : Digits[d] = c) - 1

\* The decimal digits of a natural number, as Number.prototype.toString
\* prints an integer: no leading zeros.
RECURSIVE natToString(_)
natToString(n) ==
    IF n < 10 THEN <<Digits[n + 1]>>
    ELSE natToString(n \div 10) \o <<Digits[(n % 10) + 1]>>

\* The value of a non-empty digit string (leading zeros allowed).
RECURSIVE digitsToNat(_)
digitsToNat(s) ==
    IF s = <<>> THEN 0
    ELSE 10 * digitsToNat(SubSeq(s, 1, Len(s) - 1)) + DigitValue(s[Len(s)])

AllDigits(s) == s # <<>> /\ \A i \in 1..Len(s) : IsDigit(s[i])

-----------------------------------------------------------------------------
(* JavaScript values: t is the type tag, s the characters of a string, n   *)
(* the value of a number.  NaN is a number with its own tag.               *)

Undefined == [t |-> "undefined", s |-> <<>>, n |-> 0]
Null      == [t |-> "null", s |-> <<>>, n |-> 0]
NaN       == [t |-> "NaN", s |-> <<>>, n |-> 0]
Str(s)    == [t |-> "string", s |-> s, n |-> 0]
Num(n)    == [t |-> "number", s |-> <<>>, n |-> n]

\* ToBoolean, as used by !v and ||
Truthy(v) ==
    CASE v.t = "string" -> v.s # <<>>
      [] v.t = "number" -> v.n # 0
      [] OTHER -> FALSE

\* a || b
OrElse(a, b) == IF Truthy(a) THEN a ELSE b

\* a ?? b
Coalesce(a, b) == IF a.t \in {"undefined", "null"} THEN b ELSE a

\* StringToNumber on the characters of the model (digits, '-', whitespace,
\* letters, comma): surrounding whitespace is ignored, the empty string is
\* 0, an optionally signed digit string is its value, anything else NaN.
stringToNumber(s) ==
    LET t == trim(s) IN
    IF t = <<>> THEN Num(0)
    ELSE IF AllDigits(t) THEN Num(digitsToNat(t))
    ELSE IF Head(t) = "-" /\ AllDigits(Tail(t)) THEN Num(0 - digitsToNat(Tail(t)))
    ELSE NaN

\* Number(v)
ToNumber(v) ==
    CASE v.t = "undefined" -> NaN
      [] v.t = "null" -> Num(0)
      [] v.t = "string" -> stringToNumber(v.s)
      [] OTHER -> v

\* String(v), as characters
ToString(v) ==
    CASE v.t = "string" -> v.s
      [] v.t = "number" ->
            IF v.n < 0 THEN <<"-">> \o natToString(0 - v.n) ELSE natToString(v.n)
      [] v.t = "NaN" -> <<"N", "a", "N">>
      [] v.t = "null" -> <<"n", "u", "l", "l">>
      [] OTHER -> <<"u", "n", "d", "e", "f", "i", "n", "e", "d">>

-----------------------------------------------------------------------------
(* The record codec. *)

\* const safe = s => String(s ?? '').replace(/,/g, ' ').trim();
safe(v) == trim(replaceCommas(ToString(Coalesce(v, Str(<<>>)))))

\* String(Number(rec.amount) || 0)
amountText(v) == ToString(OrElse(ToNumber(v), Num(0)))

toCsvLine(rec) ==
    join(<<safe(rec.id), safe(rec.date), safe(rec.category),
           safe(rec.payee), amountText(rec.amount), safe(rec.notes)>>, ",")
    \o <<"\n">>

\* parseCsvLine without Number(amount): the amount stays a string.
parseCsvLineNoNumber(line) ==
    LET parts == split(line, ",")
        at(i) == IF i <= Len(parts) THEN Str(parts[i]) ELSE Undefined
    IN  [id       |-> at(1),
         date     |-> at(2),
         category |-> at(3),
         payee    |-> at(4),
         amount   |-> at(5),
         notes    |-> Coalesce(at(6), Str(<<>>))]

parseCsvLine(line) ==
    LET parts == split(line, ",")
        at(i) == IF i <= Len(parts) THEN Str(parts[i]) ELSE Undefined
    IN  [id       |-> at(1),
         date     |-> at(2),
         category |-> at(3),
         payee    |-> at(4),
         amount   |-> ToNumber(at(5)),
         notes    |-> Coalesce(at(6), Str(<<>>))]

-----------------------------------------------------------------------------
(* The store. *)

\* 'id,date,category,payee,amount,notes\n'
Header ==
    <<"i", "d", ",", "d", "a", "t", "e", ",",
      "c", "a", "t", "e", "g", "o", "r", "y", ",",
      "p", "a", "y", "e", "e", ",", "a", "m", "o", "u", "n", "t", ",",
      "n", "o", "t", "e", "s", "\n">>

\* ensureCsv without the existsSync test of line 51: the header is written
\* every time.
ensureCsvRewrite(fs) ==
    [dir |-> TRUE, exists |-> TRUE, content |-> Header]

\* mkdirSync when the directory is missing, writeFileSync of the header when
\* the file is missing, nothing otherwise.
ensureCsv(fs) ==
    [dir     |-> TRUE,
     exists  |-> TRUE,
     content |-> IF fs.exists THEN fs.content ELSE Header]

\* readRows without slice(1): the header line is parsed as a row.
readRowsKeepHeader(text) ==
    LET rows == SelectSeq(split(trim(text), "\n"), LAMBDA l : l # <<>>)
    IN  [i \in 1..Len(rows) |-> parseCsvLine(rows[i])]

\* Lines 102-105: trim the text, split it at newlines, drop the first line
\* and the empty ones, parse the rest.
readRows(text) ==
    LET raw   == trim(text)
        lines == split(raw, "\n")
        rows  == SelectSeq(Tail(lines), LAMBDA l : l # <<>>)
    IN  [i \in 1..Len(rows) |-> parseCsvLine(rows[i])]

\* loadAll: the file system it leaves and the rows it returns.
loadAll(fs) ==
    [fs |-> ensureCsv(fs), rows |-> readRows(ensureCsv(fs).content)]

\* fs.appendFileSync(CSV_PATH, toCsvLine(rec)): creates the file if needed.
appendOne(fs, rec) ==
    [dir     |-> fs.dir,
     exists  |-> TRUE,
     content |-> (IF fs.exists THEN fs.content ELSE <<>>) \o toCsvLine(rec)]

-----------------------------------------------------------------------------
(* The handler of POST /api/transactions, piece by piece. *)

\* Line 158 with !amount in place of amount === undefined.
missingRequiredFalsyAmount(body) ==
    \/ ~Truthy(body.date)
    \/ ~Truthy(body.category)
    \/ ~Truthy(body.amount)

\* Line 158
missingRequired(body) ==
    \/ ~Truthy(body.date)
    \/ ~Truthy(body.category)
    \/ body.amount = Undefined

\* The handler without the test of lines 163-166.
amountIsNaNUnchecked(body) == FALSE

\* Lines 163-164
amountIsNaN(body) == ToNumber(body.amount) = NaN

\* Line 171.  A UUID is modelled as "u" followed by the number of UUIDs
\* returned before it: randomUUID never returns the same value twice.
newId(crypto, issued, clock) ==
    IF crypto THEN Str(<<"u">> \o natToString(issued))
    ELSE Str(natToString(clock))

\* Lines 174-181
makeRecord(id, body) ==
    [id       |-> id,
     date     |-> body.date,
     category |-> body.category,
     payee    |-> OrElse(body.payee, Str(<<>>)),
     amount   |-> ToNumber(body.amount),
     notes    |-> OrElse(body.notes, Str(<<>>))]

\* unshift in place of push.
pushFront(list, rec) == <<rec>> \o list

\* Line 184: transactions.push(rec)
push(list, rec) == Append(list, rec)

\* The file first, then memory: a failed append leaves the array alone.
storeRecordFileFirst(list, fs, rec, fault) ==
    [transactions |-> IF fault THEN list ELSE Append(list, rec),
     fsys         |-> IF fault THEN fs ELSE appendOne(fs, rec),
     saved        |-> ~fault]

\* Lines 183-187: memory first, then the file.  fault: appendFileSync
\* throws without having written; the array keeps the record.
storeRecord(list, fs, rec, fault) ==
    [transactions |-> push(list, rec),
     fsys         |-> IF fault THEN fs ELSE appendOne(fs, rec),
     saved        |-> ~fault]

-----------------------------------------------------------------------------
(* Request bodies. *)

\* A valid request, and the requests that differ from it in one respect;
\* the empty body; a request with every optional field, a signed amount
\* given as text, and a comma and a space in the notes; a request with a
\* line break in the date.
ValidBody ==
    [date |-> Str(<<"a">>), category |-> Str(<<"c">>), payee |-> Undefined,
     amount |-> Num(0), notes |-> Undefined]

FullBody ==
    [date |-> Str(<<"a">>), category |-> Str(<<"c">>), payee |-> Str(<<"p">>),
     amount |-> Str(<<"-", "1", "2">>), notes |-> Str(<<" ", "n", ",">>)]

Bodies ==
    {ValidBody, FullBody,
     [date |-> Undefined, category |-> Undefined, payee |-> Undefined,
      amount |-> Undefined, notes |-> Undefined],
     [ValidBody EXCEPT !.date = Undefined],
     [ValidBody EXCEPT !.date = Str(<<>>)],
     [ValidBody EXCEPT !.date = Str(<<"a", "\n", "b">>)],
     [ValidBody EXCEPT !.category = Undefined],
     [ValidBody EXCEPT !.category = Str(<<>>)],
     [FullBody EXCEPT !.amount = Undefined],
     [ValidBody EXCEPT !.amount = Null],
     [FullBody EXCEPT !.amount = Str(<<"a", "b">>)]}

NoBody == [date |-> Undefined, category |-> Undefined, payee |-> Undefined,
           amount |-> Undefined, notes |-> Undefined]

Step(name) == [op |-> name, body |-> NoBody]
NoResponse == [status |-> 0, body |-> <<>>, made |-> <<>>]
NoCodec    == [pc |-> "off", rec |-> makeRecord(Undefined, NoBody),
               line |-> <<>>, out |-> <<>>]

-----------------------------------------------------------------------------
(* The process. *)

Init ==
    /\ phase = "boot"
    /\ fsys \in {[dir |-> d, exists |-> FALSE, content |-> <<>>] : d \in BOOLEAN}
    /\ transactions = <<>>
    /\ hasCrypto \in BOOLEAN
    /\ now = 0
    /\ uuids = 0
    /\ nreq = 0
    /\ req = Step("init")
    /\ res = NoResponse
    /\ before = [transactions |-> <<>>, fsys |-> fsys]
    /\ fresh = FALSE
    /\ loaded = <<>>
    /\ listed = <<>>
    /\ created = <<>>
    /\ unsaved = {}
    /\ appended = 0
    /\ dropped = 0
    /\ codec = NoCodec

\* What every step records of the state it started from.
Record(step) ==
    /\ req' = step
    /\ before' = [transactions |-> transactions, fsys |-> fsys]

\* Line 120: let transactions = loadAll();
Load ==
    /\ phase = "boot"
    /\ phase' = "loaded"
    /\ fsys' = loadAll(fsys).fs
    /\ transactions' = loadAll(fsys).rows
    /\ fresh' = ~fsys.dir
    /\ loaded' = loadAll(fsys).rows
    /\ listed' = <<>>
    /\ created' = <<>>
    /\ unsaved' = {}
    /\ res' = NoResponse
    /\ Record(Step("load"))
    /\ UNCHANGED <<hasCrypto, now, uuids, nreq, appended, dropped, codec>>

\* Lines 207-211: the callback of app.listen.
Listen ==
    /\ phase = "loaded"
    /\ phase' = "listening"
    /\ fsys' = ensureCsv(fsys)
    /\ res' = NoResponse
    /\ Record(Step("listen"))
    /\ UNCHANGED <<transactions, hasCrypto, now, uuids, nreq, fresh, loaded,
                   listed, created, unsaved, appended, dropped, codec>>

\* Lines 145-147
List ==
    /\ phase = "listening"
    /\ nreq < MaxReq
    /\ nreq' = nreq + 1
    /\ res' = [status |-> 200, body |-> transactions, made |-> <<>>]
    /\ listed' = transactions
    /\ Record(Step("list"))
    /\ UNCHANGED <<phase, fsys, transactions, hasCrypto, now, uuids, fresh,
                   loaded, created, unsaved, appended, dropped, codec>>

\* Lines 152-191.  A throw of appendFileSync is answered 500 by the
\* framework and the process goes on.
Create(body, fault) ==
    /\ phase = "listening"
    /\ nreq < MaxReq
    /\ nreq' = nreq + 1
    /\ Record([op |-> "create", body |-> body])
    /\ IF missingRequired(body) \/ amountIsNaN(body)
       THEN /\ res' = [status |-> 400, body |-> <<>>, made |-> <<>>]
            /\ UNCHANGED <<fsys, transactions, uuids, created, unsaved, appended>>
       ELSE LET rec == makeRecord(newId(hasCrypto, uuids, now), body)
                out == storeRecord(transactions, fsys, rec, fault)
                at  == [pos |-> Len(transactions) + 1, rec |-> rec]
            IN  /\ uuids' = IF hasCrypto THEN uuids + 1 ELSE uuids
                /\ transactions' = out.transactions
                /\ fsys' = out.fsys
                /\ IF out.saved
                   THEN /\ res' = [status |-> 200, body |-> <<rec>>, made |-> <<rec>>]
                        /\ created' = Append(created, at)
                        /\ appended' = appended + 1
                        /\ unsaved' = unsaved
                   ELSE /\ res' = [status |-> 500, body |-> <<>>, made |-> <<rec>>]
                        /\ unsaved' = unsaved \cup {at}
                        /\ UNCHANGED <<created, appended>>
    /\ UNCHANGED <<phase, hasCrypto, now, fresh, loaded, listed, dropped, codec>>

\* The clock advances.  Only the fallback of line 171 reads it, so it is
\* followed while a request can still come, one tick per request at most.
Tick ==
    /\ ~hasCrypto
    /\ nreq < MaxReq
    /\ now < nreq
    /\ now' = now + 1
    /\ UNCHANGED <<phase, fsys, transactions, hasCrypto, uuids, nreq, req, res,
                   before, fresh, loaded, listed, created, unsaved, appended,
                   dropped, codec>>

\* The process ends and is started again: the array is gone, the file stays.
\* Followed while a request can still come.
Restart ==
    /\ phase = "listening"
    /\ nreq < MaxReq
    /\ phase' = "boot"
    /\ transactions' = <<>>
    /\ loaded' = <<>>
    /\ listed' = <<>>
    /\ created' = <<>>
    /\ unsaved' = {}
    /\ dropped' = Cardinality(unsaved)
    /\ fresh' = FALSE
    /\ res' = NoResponse
    /\ Record(Step("restart"))
    /\ UNCHANGED <<fsys, hasCrypto, now, uuids, nreq, appended, codec>>

Next ==
    \/ Load
    \/ Listen
    \/ List
    \/ \E body \in Bodies, fault \in BOOLEAN : Create(body, fault)
    \/ Tick
    \/ Restart

Spec == Init /\ [][Next]_vars

-----------------------------------------------------------------------------
(* The codec alone: a record is encoded by toCsvLine, and the line is      *)
(* decoded the way loadAll decodes the lines of a file that holds it.      *)

CodecIds        == {Str(<<"u", "0">>)}
CodecDates      == {Str(<<"a">>), Str(<<" ", "a">>), Str(<<"a", ",", "b">>),
                    Str(<<"a", "\n", "b">>)}
CodecCategories == {Str(<<"c">>)}
CodecPayees     == {Str(<<>>), Str(<<"p">>), Undefined}
CodecAmounts    == {Num(0), Num(0 - 12), Num(305), NaN}
CodecNotes      == {Str(<<>>), Str(<<"n", " ", "k">>), Str(<<"n", " ">>)}

CodecRecords ==
    [id : CodecIds, date : CodecDates, category : CodecCategories,
     payee : CodecPayees, amount : CodecAmounts, notes : CodecNotes]

InitCodec ==
    /\ phase = "boot"
    /\ fsys = [dir |-> FALSE, exists |-> FALSE, content |-> <<>>]
    /\ transactions = <<>>
    /\ hasCrypto = TRUE
    /\ now = 0
    /\ uuids = 0
    /\ nreq = 0
    /\ req = Step("init")
    /\ res = NoResponse
    /\ before = [transactions |-> <<>>, fsys |-> fsys]
    /\ fresh = FALSE
    /\ loaded = <<>>
    /\ listed = <<>>
    /\ created = <<>>
    /\ unsaved = {}
    /\ appended = 0
    /\ dropped = 0
    /\ codec \in {[pc |-> "start", rec |-> r, line |-> <<>>, out |-> <<>>] :
                    r \in CodecRecords}

process == <<phase, fsys, transactions, hasCrypto, now, uuids, nreq, req, res,
             before, fresh, loaded, listed, created, unsaved, appended, dropped>>

Encode ==
    /\ codec.pc = "start"
    /\ codec' = [codec EXCEPT !.pc = "encoded", !.line = toCsvLine(codec.rec)]
    /\ UNCHANGED process

Decode ==
    /\ codec.pc = "encoded"
    /\ codec' = [codec EXCEPT !.pc = "decoded",
                              !.out = readRows(Header \o codec.line)]
    /\ UNCHANGED process

NextCodec == Encode \/ Decode

SpecCodec == InitCodec /\ [][NextCodec]_vars

-----------------------------------------------------------------------------
(* Properties. *)

IsPrefix(a, b) == Len(a) <= Len(b) /\ SubSeq(b, 1, Len(a)) = a

AbsentOrEmpty(v) == v.t = "undefined" \/ (v.t = "string" /\ v.s = <<>>)

NonEmptyText(v) == v.t = "string" /\ Len(v.s) > 0

TextFields(rec) == <<rec.id, rec.date, rec.category, rec.payee, rec.notes>>

HasChar(v, c) == v.t = "string" /\ \E i \in 1..Len(v.s) : v.s[i] = c

\* C1: within one process the array is the rows loaded at startup followed
\* by the created records in the order their requests were handled (with,
\* among them, only the records whose append failed); a
\* request never changes, moves or removes a record already there, so the
\* latest List result is always a prefix of the array, and List returns the
\* array.
C1_AppendOrder ==
    phase # "boot" =>
        /\ IsPrefix(loaded, transactions)
        /\ \A i \in 1..Len(created) :
              /\ created[i].pos \in (Len(loaded) + 1)..Len(transactions)
              /\ transactions[created[i].pos] = created[i].rec
        /\ \A i, j \in 1..Len(created) :
              i < j => created[i].pos < created[j].pos
        /\ (Len(loaded) + 1)..Len(transactions) =
              {created[i].pos : i \in 1..Len(created)}
                  \cup {u.pos : u \in unsaved}
        /\ IsPrefix(listed, transactions)
        /\ (req.op \in {"list", "create"} =>
                IsPrefix(before.transactions, transactions))
        /\ (req.op = "list" => res.body = transactions)

C1_Witness ==
    /\ req.op = "list"
    /\ Len(created) = 2
    /\ created[1].rec # created[2].rec
    /\ res.body = <<created[1].rec, created[2].rec>>

\* C2: once a Create has succeeded (and no append has failed), decoding the
\* file's data lines the way loadAll does gives the in-memory sequence.
C2_MemoryEqualsFile ==
    (phase = "listening" /\ created # <<>> /\ unsaved = {}) =>
        readRows(fsys.content) = transactions

\* C3: a Create whose date or category is absent or empty, or whose amount
\* is undefined, is answered 400 and changes neither the array nor the file;
\* an amount of 0 is not missing: with date and category given the record
\* is pushed with amount 0.
C3_MissingFieldRejected ==
    req.op = "create" =>
        /\ (\/ AbsentOrEmpty(req.body.date)
            \/ AbsentOrEmpty(req.body.category)
            \/ req.body.amount.t = "undefined") =>
              /\ res.status = 400
              /\ transactions = before.transactions
              /\ fsys = before.fsys
        /\ (/\ NonEmptyText(req.body.date)
            /\ NonEmptyText(req.body.category)
            /\ req.body.amount = Num(0)) =>
              /\ res.status # 400
              /\ Len(transactions) = Len(before.transactions) + 1
              /\ transactions[Len(transactions)].amount = Num(0)

C3_Witness ==
    /\ req.op = "create"
    /\ req.body.amount.t = "undefined"
    /\ NonEmptyText(req.body.date)
    /\ res.status = 400
    /\ Len(transactions) > 0

\* C4: a Create with date, category and amount present whose amount is not
\* a number once coerced is answered 400 and changes neither the array nor
\* the file.
C4_NotANumberRejected ==
    (/\ req.op = "create"
     /\ NonEmptyText(req.body.date)
     /\ NonEmptyText(req.body.category)
     /\ req.body.amount.t # "undefined"
     /\ ToNumber(req.body.amount) = NaN) =>
        /\ res.status = 400
        /\ transactions = before.transactions
        /\ fsys = before.fsys

C4_Witness ==
    /\ req.op = "create"
    /\ req.body.amount = Str(<<"a", "b">>)
    /\ res.status = 400
    /\ Len(transactions) > 0

\* C5: the file is the header line followed by newline-terminated data
\* lines of exactly six comma-separated fields, one per successful Create.
C5_FileFormat ==
    fsys.exists =>
        LET lines == split(fsys.content, "\n") IN
        /\ lines[1] \o <<"\n">> = Header
        /\ lines[Len(lines)] = <<>>
        /\ \A i \in 2..(Len(lines) - 1) : Len(split(lines[i], ",")) = 6
        /\ Len(lines) - 2 = appended

\* C6: a record with no comma in any field, encoded by toCsvLine and
\* decoded as loadAll decodes, comes back equal in all six fields.
C6_RoundTrip ==
    (/\ codec.pc = "decoded"
     /\ \A i \in 1..5 : ~HasChar(TextFields(codec.rec)[i], ",")) =>
        codec.out = <<codec.rec>>

CleanText(v) ==
    /\ v.t = "string"
    /\ ~HasChar(v, ",")
    /\ ~HasChar(v, "\n")
    /\ v.s # <<>> => ~IsWhitespace(v.s[1]) /\ ~IsWhitespace(v.s[Len(v.s)])

\* C6 as amended: the round trip gives the record back when its text
\* fields are strings with no comma, no line break and no whitespace at
\* either end, and its amount is a number other than NaN.
C6_RoundTripClean ==
    (/\ codec.pc = "decoded"
     /\ \A i \in 1..5 : CleanText(TextFields(codec.rec)[i])
     /\ codec.rec.amount.t = "number") =>
        codec.out = <<codec.rec>>

C6_Witness ==
    /\ codec.pc = "decoded"
    /\ \A i \in 1..5 : CleanText(TextFields(codec.rec)[i])
    /\ codec.rec.amount = Num(0 - 12)
    /\ HasChar(codec.rec.notes, " ")
    /\ codec.out = <<codec.rec>>

\* C7: a process started when the directory does not exist makes the
\* directory and a file holding only the header, loads no record, and
\* answers a List that precedes every Create with the empty array.
C7_FreshStart ==
    (fresh /\ phase # "boot") =>
        /\ loaded = <<>>
        /\ (req.op = "load" =>
                /\ ~before.fsys.dir
                /\ fsys = [dir |-> TRUE, exists |-> TRUE, content |-> Header]
                /\ transactions = <<>>)
        /\ ((req.op = "list" /\ created = <<>> /\ unsaved = {}) =>
                res.body = <<>>)

C7_Witness ==
    /\ fresh
    /\ req.op = "list"
    /\ created = <<>>
    /\ unsaved = {}
    /\ res.status = 200
    /\ fsys.content = Header

\* C8: no two records of the array, and no two rows of the file, carry the
\* same id, with the UUID generator as with the timestamp fallback.
C8_UniqueIds ==
    LET rows == IF fsys.exists THEN readRows(fsys.content) ELSE <<>> IN
    /\ \A i, j \in 1..Len(transactions) :
          i # j => transactions[i].id # transactions[j].id
    /\ \A i, j \in 1..Len(rows) : i # j => rows[i].id # rows[j].id

\* C9: when the append fails the record has been pushed and the file is as
\* it was; the record stays in the array, and in every List result, for the
\* rest of the process; a restart loads the rows of the file, from which
\* the record is absent.
C9_MemoryAheadOfFile ==
    /\ res.status = 500 =>
          /\ transactions = Append(before.transactions, res.made[1])
          /\ fsys = before.fsys
    /\ \A u \in unsaved :
          /\ u.pos <= Len(transactions)
          /\ transactions[u.pos] = u.rec
          /\ req.op = "list" => res.body[u.pos] = u.rec
    /\ req.op = "load" =>
          /\ transactions = readRows(fsys.content)
          /\ unsaved = {}
          /\ fsys.content = before.fsys.content \/ ~before.fsys.exists

C9_Witness ==
    /\ req.op = "load"
    /\ dropped > 0
    /\ Len(transactions) > 0
    /\ Len(transactions) = appended

\* C10: ensureCsv applied twice gives what it gives applied once; where the
\* directory and the file exist it changes nothing; so neither the call in
\* loadAll nor the call after the server binds changes a file that exists.
C10_EnsureCsvKeepsData ==
    /\ ensureCsv(ensureCsv(fsys)) = ensureCsv(fsys)
    /\ ensureCsv(ensureCsv(before.fsys)) = ensureCsv(before.fsys)
    /\ (fsys.dir /\ fsys.exists) => ensureCsv(fsys) = fsys
    /\ req.op = "listen" => fsys = before.fsys
    /\ (req.op = "load" /\ before.fsys.exists) => fsys = before.fsys

C10_Witness ==
    /\ req.op = "listen"
    /\ Len(fsys.content) > Len(Header)
    /\ fsys = before.fsys

====
